---- MODULE Spec2Model ----
(***************************************************************************)
(* The black-box Newton solver of oomph-lib                                *)
(* (src/src/generic/black_box_newton_solver.cc): the driver                *)
(* black_box_fd_newton_solve and its helper line_search, as a state        *)
(* machine over IEEE-754 binary64 values.                                  *)
(*                                                                         *)
(* Part 1 models the C++ type double: a value is a record                  *)
(*   [k |-> "fin", s |-> sign, m |-> significand, e |-> exponent]          *)
(* standing for (-1)^s * m * 2^e, with m a natural number of exactly 53    *)
(* bits (or fewer when e = -1074, or zero), or k = "inf" / "nan".          *)
(* Every operation rounds to nearest, ties to even, as the hardware does.  *)
(* Significands do not fit TLC's 32-bit integers, so they are kept as      *)
(* little-endian sequences of 14-bit limbs.  Zero carries no sign.         *)
(***************************************************************************)
EXTENDS Integers, Sequences, FiniteSets, TLC

Max2(a, b) == IF a >= b THEN a ELSE b
Min2(a, b) == IF a <= b THEN a ELSE b

\* ------------------------------------------------------------------------
\* Natural numbers of any size: limb sequences, least significant first,
\* no zero limb at the top; <<>> is 0.
\* ------------------------------------------------------------------------
Base == 2^14

RECURSIVE BNorm(_)
BNorm(a) ==
  IF a = <<>> THEN a
  ELSE IF a[Len(a)] = 0 THEN BNorm(SubSeq(a, 1, Len(a) - 1)) ELSE a

Limb(a, i) == IF i >= 1 /\ i <= Len(a) THEN a[i] ELSE 0

RECURSIVE BFromInt(_)
BFromInt(n) == IF n = 0 THEN <<>> ELSE <<n % Base>> \o BFromInt(n \div Base)

RECURSIVE BAddFrom(_, _, _, _)
BAddFrom(a, b, i, c) ==
  IF i > Len(a) /\ i > Len(b)
  THEN (IF c = 0 THEN <<>> ELSE <<c>>)
  ELSE LET t == Limb(a, i) + Limb(b, i) + c
       IN  <<t % Base>> \o BAddFrom(a, b, i + 1, t \div Base)

BAdd(a, b) == BAddFrom(a, b, 1, 0)

\* a - b for a >= b
RECURSIVE BSubFrom(_, _, _, _)
BSubFrom(a, b, i, br) ==
  IF i > Len(a) THEN <<>>
  ELSE LET t == Limb(a, i) - Limb(b, i) - br
       IN  IF t < 0 THEN <<t + Base>> \o BSubFrom(a, b, i + 1, 1)
           ELSE <<t>> \o BSubFrom(a, b, i + 1, 0)

BSub(a, b) == BNorm(BSubFrom(a, b, 1, 0))

\* -1, 0, 1 as a < b, a = b, a > b
RECURSIVE BCmpFrom(_, _, _)
BCmpFrom(a, b, i) ==
  IF i = 0 THEN 0
  ELSE IF a[i] < b[i] THEN -1
  ELSE IF a[i] > b[i] THEN 1
  ELSE BCmpFrom(a, b, i - 1)

BCmp(a, b) ==
  IF Len(a) < Len(b) THEN -1
  ELSE IF Len(a) > Len(b) THEN 1
  ELSE BCmpFrom(a, b, Len(a))

\* a * k for 0 <= k <= Base
RECURSIVE BMulSmallFrom(_, _, _, _)
BMulSmallFrom(a, k, i, c) ==
  IF i > Len(a)
  THEN (IF c = 0 THEN <<>> ELSE <<c>>)
  ELSE LET t == a[i] * k + c
       IN  <<t % Base>> \o BMulSmallFrom(a, k, i + 1, t \div Base)

BMulSmall(a, k) == IF k = 0 THEN <<>> ELSE BMulSmallFrom(a, k, 1, 0)

BShlLimbs(a, q) == IF a = <<>> THEN a ELSE [i \in 1..q |-> 0] \o a

RECURSIVE BMulFrom(_, _, _)
BMulFrom(a, b, i) ==
  IF i > Len(b) THEN <<>>
  ELSE BAdd(BShlLimbs(BMulSmall(a, b[i]), i - 1), BMulFrom(a, b, i + 1))

BMul(a, b) == BMulFrom(a, b, 1)

\* a * 2^k
BShl(a, k) == BShlLimbs(BMulSmall(a, 2^(k % 14)), k \div 14)

\* floor(a / 2^k)
BShr(a, k) ==
  LET q == k \div 14
      r == k % 14
      n == Len(a) - q
  IN  IF n <= 0 THEN <<>>
      ELSE BNorm([i \in 1..n |->
                   (a[i + q] \div 2^r) + (Limb(a, i + q + 1) % 2^r) * 2^(14 - r)])

\* bit k of a, bit 0 the lowest
BBit(a, k) == (Limb(a, (k \div 14) + 1) \div 2^(k % 14)) % 2

\* whether the k lowest bits of a are all 0
BLowZero(a, k) ==
  /\ \A i \in 1..Min2(k \div 14, Len(a)) : a[i] = 0
  /\ Limb(a, (k \div 14) + 1) % 2^(k % 14) = 0

IntBitLen(n) == CHOOSE j \in 0..31 : (j = 0 \/ 2^(j - 1) <= n) /\ (j = 31 \/ n < 2^j)

BBitLen(a) == IF a = <<>> THEN 0 ELSE 14 * (Len(a) - 1) + IntBitLen(a[Len(a)])

\* Schoolbook long division, for a divisor b whose top limb is >= Base/2:
\* one quotient limb per limb of a, estimated from the two top limbs of the
\* running remainder and lowered until it fits; st is <<the quotient limbs
\* found so far, the running remainder>>.
RECURSIVE BFitDigit(_, _, _)
BFitDigit(r, b, q) ==
  IF BCmp(BMulSmall(b, q), r) = 1 THEN BFitDigit(r, b, q - 1) ELSE q

BGuessDigit(r, b) ==
  Min2(Base - 1, (Limb(r, Len(b) + 1) * Base + Limb(r, Len(b))) \div b[Len(b)])

RECURSIVE BDivStep(_, _, _)
BDivTake(a, b, q, r, qd) ==
  BDivStep(a, b, <<(<<qd>> \o q), BSub(r, BMulSmall(b, qd))>>)

BDivDigit(a, b, q, r) == BDivTake(a, b, q, r, BFitDigit(r, b, BGuessDigit(r, b)))

BDivStep(a, b, st) ==
  IF Len(st[1]) = Len(a) THEN st
  ELSE BDivDigit(a, b, st[1], BNorm(<<a[Len(a) - Len(st[1])]>> \o st[2]))

BDivResult(res) == <<BNorm(res[1]), res[2] = <<>> >>

BDivScaled(a, b, sh) == BDivResult(BDivStep(BShl(a, sh), BShl(b, sh), <<(<<>>), (<<>>)>>))

\* <<floor(a / b), whether a is a multiple of b>> for b > 0
BDivMod(a, b) == BDivScaled(a, b, 14 - IntBitLen(b[Len(b)]))

\* floor(sqrt(a)) by Newton's iteration from above
RECURSIVE BSqrtIter(_, _)
BSqrtNext(a, x, y) == IF BCmp(y, x) >= 0 THEN x ELSE BSqrtIter(a, y)

BSqrtIter(a, x) == BSqrtNext(a, x, BShr(BAdd(x, BDivMod(a, x)[1]), 1))

BSqrt(a) == IF a = <<>> THEN a ELSE BSqrtIter(a, BShl(<<1>>, (BBitLen(a) + 1) \div 2))


\* ------------------------------------------------------------------------
\* double: IEEE-754 binary64, round to nearest, ties to even.
\* ------------------------------------------------------------------------
SignificandBits == 53
MinExponent == -1074
MaxExponent == 971

Zero == [k |-> "fin", s |-> 0, m |-> <<>>, e |-> 0]
Inf(s) == [k |-> "inf", s |-> s, m |-> <<>>, e |-> 0]
NaN == [k |-> "nan", s |-> 0, m |-> <<>>, e |-> 0]

IsNaN(a) == a.k = "nan"
IsZero(a) == a.k = "fin" /\ a.m = <<>>
IsFinite(a) == a.k = "fin"

\* the double (-1)^s * m * 2^e for m of at most 53 bits and e >= MinExponent
Pack(s, m, e) ==
  IF m = <<>> THEN Zero
  ELSE IF e > MaxExponent THEN Inf(s)
  ELSE [k |-> "fin", s |-> s, m |-> m, e |-> e]

\* a significand that rounding carried to 54 bits loses its (zero) last bit
RoundCarry(s, m, e) ==
  IF BBitLen(m) > SignificandBits THEN Pack(s, BShr(m, 1), e + 1) ELSE Pack(s, m, e)

\* M cut by sh bits to m0: up when the part cut off is more than half a unit
\* of m0, or exactly half with m0 odd
RoundUp(M, sh, sticky, m0) ==
  /\ sh > 0
  /\ BBit(M, sh - 1) = 1
  /\ (sticky \/ ~BLowZero(M, sh - 1) \/ BBit(m0, 0) = 1)

RoundCut(s, M, sh, sticky, e0, m0) ==
  RoundCarry(s, IF RoundUp(M, sh, sticky, m0) THEN BAdd(m0, <<1>>) ELSE m0, e0)

RoundAt(s, M, E, sticky, e0) ==
  RoundCut(s, M, e0 - E, sticky, e0,
           IF e0 <= E THEN BShl(M, E - e0) ELSE BShr(M, e0 - E))

\* The double nearest to (-1)^s * (M + f) * 2^E, where 0 <= f < 1 and
\* sticky says whether f > 0.
RoundPack(s, M, E, sticky) ==
  IF M = <<>> THEN Zero
  ELSE RoundAt(s, M, E, sticky, Max2(E + BBitLen(M) - SignificandBits, MinExponent))

\* the double of a (32-bit) integer literal
D(n) == RoundPack(IF n < 0 THEN 1 ELSE 0, BFromInt(IF n < 0 THEN -n ELSE n), 0, FALSE)

FNeg(a) == IF IsNaN(a) \/ IsZero(a) THEN a ELSE [a EXCEPT !.s = 1 - a.s]

\* std::fabs
FAbs(a) == [a EXCEPT !.s = 0]

\* -1, 0, 1 as |a| < |b|, |a| = |b|, |a| > |b| (neither a NaN)
MagCmp(a, b) ==
  IF a.k = "inf" \/ b.k = "inf"
  THEN (IF a.k = b.k THEN 0 ELSE IF a.k = "inf" THEN 1 ELSE -1)
  ELSE IF IsZero(a) \/ IsZero(b)
  THEN (IF IsZero(a) /\ IsZero(b) THEN 0 ELSE IF IsZero(a) THEN -1 ELSE 1)
  ELSE IF a.e < b.e THEN -1
  ELSE IF a.e > b.e THEN 1
  ELSE BCmp(a.m, b.m)

\* -1, 0, 1 as a < b, a = b, a > b (neither a NaN)
FCmp(a, b) ==
  IF IsZero(a) /\ IsZero(b) THEN 0
  ELSE IF IsZero(a) THEN (IF b.s = 0 THEN -1 ELSE 1)
  ELSE IF IsZero(b) THEN (IF a.s = 0 THEN 1 ELSE -1)
  ELSE IF a.s # b.s THEN (IF a.s = 1 THEN -1 ELSE 1)
  ELSE IF a.s = 0 THEN MagCmp(a, b) ELSE -MagCmp(a, b)

\* the comparison operators of double: false whenever an operand is a NaN
FLt(a, b) == ~IsNaN(a) /\ ~IsNaN(b) /\ FCmp(a, b) = -1
FLe(a, b) == ~IsNaN(a) /\ ~IsNaN(b) /\ FCmp(a, b) <= 0
FGt(a, b) == FLt(b, a)
FGe(a, b) == FLe(b, a)
FEq(a, b) == ~IsNaN(a) /\ ~IsNaN(b) /\ FCmp(a, b) = 0

\* std::max(a, b): (a < b) ? b : a
FMax(a, b) == IF FLt(a, b) THEN b ELSE a

\* (-1)^sa * A * 2^e + (-1)^sb * (B + f) * 2^e, where c compares A with B and
\* sticky says whether 0 < f < 1 (and then A > B + 1)
FAddCompared(sa, A, sb, B, e, sticky, c) ==
  RoundPack(IF sa = sb \/ c = 1 THEN sa ELSE sb,
            IF sa = sb THEN BAdd(A, B)
            ELSE IF c = 1 THEN BSub(A, IF sticky THEN BAdd(B, <<1>>) ELSE B)
            ELSE BSub(B, A),
            e, sticky)

FAddAligned(sa, A, sb, B, e, sticky) ==
  FAddCompared(sa, A, sb, B, e, sticky, BCmp(A, B))

\* hi + lo for finite nonzero hi, lo with hi.e >= lo.e; a lo more than 60
\* binary places below hi only decides the rounding
FAddOrdered(hi, lo) ==
  IF hi.e - lo.e > 60
  THEN FAddAligned(hi.s, BShl(hi.m, 3), lo.s, <<>>, hi.e - 3, TRUE)
  ELSE FAddAligned(hi.s, BShl(hi.m, hi.e - lo.e), lo.s, lo.m, lo.e, FALSE)

FAddFinite(a, b) == IF a.e >= b.e THEN FAddOrdered(a, b) ELSE FAddOrdered(b, a)

\* a + b
FAdd(a, b) ==
  IF IsNaN(a) \/ IsNaN(b) THEN NaN
  ELSE IF a.k = "inf" /\ b.k = "inf" THEN (IF a.s = b.s THEN a ELSE NaN)
  ELSE IF a.k = "inf" THEN a
  ELSE IF b.k = "inf" THEN b
  ELSE IF IsZero(a) THEN b
  ELSE IF IsZero(b) THEN a
  ELSE FAddFinite(a, b)

\* a - b
FSub(a, b) == FAdd(a, FNeg(b))

\* a * b
FMul(a, b) ==
  IF IsNaN(a) \/ IsNaN(b) THEN NaN
  ELSE IF a.k = "inf" \/ b.k = "inf"
  THEN (IF IsZero(a) \/ IsZero(b) THEN NaN ELSE Inf((a.s + b.s) % 2))
  ELSE IF IsZero(a) \/ IsZero(b) THEN Zero
  ELSE RoundPack((a.s + b.s) % 2, BMul(a.m, b.m), a.e + b.e, FALSE)

FDivRound(s, q, e) == RoundPack(s, q[1], e, ~q[2])

\* a / b for finite nonzero a, b: the quotient of the significands to at
\* least 56 bits, and whether it is exact
FDivFinite(a, b, sh) ==
  FDivRound((a.s + b.s) % 2, BDivMod(BShl(a.m, sh), b.m), a.e - b.e - sh)

\* a / b
FDiv(a, b) ==
  IF IsNaN(a) \/ IsNaN(b) THEN NaN
  ELSE IF a.k = "inf" THEN (IF b.k = "inf" THEN NaN ELSE Inf((a.s + b.s) % 2))
  ELSE IF b.k = "inf" THEN Zero
  ELSE IF IsZero(b) THEN (IF IsZero(a) THEN NaN ELSE Inf(a.s))
  ELSE IF IsZero(a) THEN Zero
  ELSE FDivFinite(a, b, Max2(0, 56 + BBitLen(b.m) - BBitLen(a.m)))

FSqrtRound(M, r, e) == RoundPack(0, r, e, BMul(r, r) # M)

FSqrtScaled(M, e) == FSqrtRound(M, BSqrt(M), e)

\* sqrt(a) for finite a > 0: the integer root of the significand scaled by
\* 2^k, k making the exponent even and the root at least 55 bits long
FSqrtFinite(a, k) == FSqrtScaled(BShl(a.m, k), (a.e - k) \div 2)

\* sqrt(a)
FSqrt(a) ==
  IF IsNaN(a) THEN NaN
  ELSE IF IsZero(a) THEN Zero
  ELSE IF a.s = 1 THEN NaN
  ELSE IF a.k = "inf" THEN a
  ELSE FSqrtFinite(a, (110 - BBitLen(a.m)) + ((a.e - (110 - BBitLen(a.m))) % 2))


\* ------------------------------------------------------------------------
\* Literals of the source
\* ------------------------------------------------------------------------
Default_Max_iter == 20
Default_FD_step == FDiv(D(1), D(100000000))
Default_Tol == FDiv(D(1), D(100000000))
min_fct_decrease == FDiv(D(1), D(10000))
convergence_tol_on_x == FDiv(D(1), FMul(D(100000000), D(100000000)))
Half == FDiv(D(1), D(2))
Tenth == FDiv(D(1), D(10))

\* ------------------------------------------------------------------------
\* Vector<double> helpers, evaluated in the order the loops of the source run.
\* ------------------------------------------------------------------------
\* sum = 0.0; for i: sum += a[i] * b[i]
RECURSIVE DotUpTo(_, _, _)
DotUpTo(a, b, n) ==
  IF n = 0 THEN Zero ELSE FAdd(DotUpTo(a, b, n - 1), FMul(a[n], b[n]))

Dot(a, b) == DotUpTo(a, b, Len(a))

\* the sum of the squares of the residuals, times 0.5
HalfSquared(r) == FMul(Dot(r, r), Half)

\* AbsCmp<double>: the later element wins only when strictly larger in
\* absolute value
AbsLarger(best, x) == IF FLt(FAbs(best), FAbs(x)) THEN x ELSE best

RECURSIVE MaxAbsUpTo(_, _)
MaxAbsUpTo(r, n) ==
  IF n = 1 THEN r[1] ELSE AbsLarger(MaxAbsUpTo(r, n - 1), r[n])

\* std::fabs(*std::max_element(r.begin(), r.end(), AbsCmp<double>()))
MaxAbs(r) == FAbs(MaxAbsUpTo(r, Len(r)))

ZeroVector(n) == [i \in 1..n |-> Zero]
ZeroMatrix(n) == [j \in 1..n |-> ZeroVector(n)]

\* ------------------------------------------------------------------------
\* The caller's collaborators.  residual_fct and jacobian_fct are function
\* pointers the caller passes; the model draws them from a small family.
\* ------------------------------------------------------------------------
\* row j of A times x, for params = A (row by row) followed by b
RECURSIVE RowTimes(_, _, _, _)
RowTimes(p, x, j, n) ==
  IF n = 0 THEN Zero
  ELSE FAdd(RowTimes(p, x, j, n - 1), FMul(p[(j - 1) * Len(x) + n], x[n]))

\* residual_fct(params, unknowns, residuals)
CallResidualFct(f, p, x) ==
  CASE f = "identity" -> x
    [] f = "square_plus_one" ->
         [i \in 1..Len(x) |-> FAdd(FMul(x[i], x[i]), D(1))]
    [] f = "cubic" ->
         [i \in 1..Len(x) |->
            FAdd(FSub(FMul(FMul(x[i], x[i]), x[i]), FMul(D(2), x[i])), D(2))]
    [] f = "sqrt_minus_one" ->
         [i \in 1..Len(x) |-> FSub(FSqrt(x[i]), D(1))]
    [] f = "linear" ->
         [j \in 1..Len(x) |->
            FSub(RowTimes(p, x, j, Len(x)), p[Len(x) * Len(x) + j])]

Diagonal(d) ==
  [j \in 1..Len(d) |-> [i \in 1..Len(d) |-> IF i = j THEN d[j] ELSE Zero]]

\* jacobian_fct(params, unknowns, jacobian): the derivative of residual f
CallJacobianFct(f, p, x) ==
  CASE f = "identity" -> Diagonal([i \in 1..Len(x) |-> D(1)])
    [] f = "square_plus_one" -> Diagonal([i \in 1..Len(x) |-> FMul(D(2), x[i])])
    [] f = "cubic" ->
         Diagonal([i \in 1..Len(x) |-> FSub(FMul(D(3), FMul(x[i], x[i])), D(2))])
    [] f = "sqrt_minus_one" ->
         Diagonal([i \in 1..Len(x) |-> FDiv(D(1), FMul(D(2), FSqrt(x[i])))])
    [] f = "linear" ->
         [j \in 1..Len(x) |-> [i \in 1..Len(x) |-> p[(j - 1) * Len(x) + i]]]

\* DenseDoubleMatrix::solve(rhs, result): the dense solve of J d = rhs by
\* elimination with row pivoting, for one or two unknowns; it fails when a
\* pivot is zero.
Singular == [ok |-> FALSE, x |-> <<>>]
Solution(d) == [ok |-> TRUE, x |-> d]

BackSubstitute(r1, b1, d2) ==
  Solution(<<FDiv(FSub(b1, FMul(r1[2], d2)), r1[1]), d2>>)

Eliminated(r1, b1, u, c2) ==
  IF IsZero(u) THEN Singular ELSE BackSubstitute(r1, b1, FDiv(c2, u))

Eliminate(r1, r2, b1, b2, l) ==
  Eliminated(r1, b1, FSub(r2[2], FMul(l, r1[2])), FSub(b2, FMul(l, b1)))

Pivoted(r1, r2, b1, b2) ==
  IF IsZero(r1[1]) THEN Singular ELSE Eliminate(r1, r2, b1, b2, FDiv(r2[1], r1[1]))

DenseSolve(J, rhs) ==
  IF Len(rhs) = 1
  THEN (IF IsZero(J[1][1]) THEN Singular ELSE Solution(<<FDiv(rhs[1], J[1][1])>>))
  ELSE IF FLt(FAbs(J[1][1]), FAbs(J[2][1]))
  THEN Pivoted(J[2], J[1], rhs[2], rhs[1])
  ELSE Pivoted(J[1], J[2], rhs[1], rhs[2])


\* ------------------------------------------------------------------------
\* State
\* ------------------------------------------------------------------------
VARIABLES
  \* namespace BlackBoxFDNewtonSolver: process-wide
  Max_iter, N_iter_taken, Doc_Progress, FD_step, Tol, Use_step_length_control,
  \* the arguments of black_box_fd_newton_solve; unknowns is the caller's vector
  residual_fct, params, unknowns, jacobian_fct,
  \* locals of black_box_fd_newton_solve
  pc, iloop, residuals, jacobian, gradient, newton_direction,
  half_residual_squared, max_step, fd_i, backup,
  \* locals of line_search
  x_old, half_residual_squared_old, slope, lambda_min, lambda, lambda_aux, f_aux,
  \* what the caller sees and what the collaborators were asked
  outcome, calls, oomph_info, warnings, ghost

config == <<Max_iter, Doc_Progress, FD_step, Tol, Use_step_length_control>>
args == <<residual_fct, params, jacobian_fct>>
solve_locals == <<iloop, residuals, jacobian, gradient, newton_direction,
                  half_residual_squared, max_step, fd_i, backup>>
search_locals == <<x_old, half_residual_squared_old, slope, lambda_min,
                   lambda, lambda_aux, f_aux>>
observed == <<outcome, calls, oomph_info, warnings, ghost>>
vars == <<config, N_iter_taken, args, unknowns, pc, solve_locals, search_locals,
          observed>>

ndof == Len(unknowns)

\* ------------------------------------------------------------------------
\* What the caller may pass
\* ------------------------------------------------------------------------
MaxCalls == 2
MaxGuess == 2

Guesses == {D(g) : g \in 0..MaxGuess} \cup {D(5)}

Problem(f, p, x, j) ==
  [residual_fct |-> f, params |-> p, unknowns |-> x, jacobian_fct |-> j]

Configuration(mi, slc, doc) ==
  [Max_iter |-> mi, Use_step_length_control |-> slc, Doc_Progress |-> doc,
   FD_step |-> Default_FD_step, Tol |-> Default_Tol]

Scenario(c, p) == [config |-> c, problem |-> p]

Jacobians == {"NULL", "analytic"}

\* r(x) = 2 x - 6, and the system 2 x + y = 5, x + 3 y = 10
Line == <<D(2), D(6)>>
Plane == <<D(2), D(1), D(1), D(3), D(5), D(10)>>

\* r(x) = 2^60 x - 1: a step of 2^-60 from 0
Steep == <<FMul(D(1073741824), D(1073741824)), D(1)>>

\* r(x) = 2^-1049 x + 2^-26: at 0 the gradient 2^-1075 underflows
Flat == <<RoundPack(0, <<1>>, -1049, FALSE), FDiv(D(-1), D(67108864))>>

\* r(x) = 2^-1074 x + 2^-26: the Newton step of 2^1048 from 0 overflows
Flattest == <<RoundPack(0, <<1>>, -1074, FALSE), FDiv(D(-1), D(67108864))>>

\* r(x) = 2^-100 x + 2^-26: the Newton step of 2^74 from 0 is capped, and
\* along the capped step the residual does not change in its last bit
Shallow == <<RoundPack(0, <<1>>, -100, FALSE), FDiv(D(-1), D(67108864))>>

\* 37839 / 65536, just above 1 / sqrt(3): the Newton step for x^2 + 1 from
\* 1 / sqrt(3) leads to -1 / sqrt(3), where the residual is the same, and
\* from here to a point where it is smaller by less than a line search asks
NearCycle == FDiv(D(37839), D(65536))

\* problems solved by the plain Newton iteration
Problems ==
  {Problem(f, <<>>, <<g>>, j) :
     f \in {"identity", "square_plus_one"}, g \in Guesses, j \in Jacobians}
  \cup {Problem("linear", Line, <<g>>, j) : g \in Guesses \cup {D(3)}, j \in Jacobians}
  \cup {Problem("linear", Plane, <<g, D(1)>>, "analytic") : g \in Guesses}
  \cup {Problem("linear", Plane, <<D(0), D(1)>>, "NULL")}
  \cup {Problem("sqrt_minus_one", <<>>, <<D(5)>>, "analytic")}

\* problems solved with step length control
SearchProblems ==
  {Problem("identity", <<>>, <<D(5)>>, j) : j \in Jacobians}
  \cup {Problem("cubic", <<>>, <<D(1)>>, "analytic"),
        Problem("square_plus_one", <<>>, <<D(1)>>, "analytic"),
        Problem("square_plus_one", <<>>, <<NearCycle>>, "analytic"),
        Problem("sqrt_minus_one", <<>>, <<D(5)>>, "analytic"),
        Problem("linear", Plane, <<D(0), D(1)>>, "analytic"),
        Problem("linear", Steep, <<D(0)>>, "analytic"),
        Problem("linear", Flat, <<D(0)>>, "analytic"),
        Problem("linear", Flattest, <<D(0)>>, "analytic"),
        Problem("linear", Shallow, <<D(0)>>, "analytic")}

Scenarios ==
  {Scenario(Configuration(Default_Max_iter, FALSE, FALSE), p) : p \in Problems}
  \cup {Scenario(Configuration(Default_Max_iter, TRUE, FALSE), p) : p \in SearchProblems}
  \cup {Scenario(Configuration(1, slc, TRUE), Problem("identity", <<>>, <<D(5)>>, j)) :
          slc \in BOOLEAN, j \in Jacobians}

\* what a call has asked of its collaborators so far, the vector it was
\* given, what the call before it left (its N_iter_taken, its outcome and
\* the rest of it), and what another thread has written during the call: how
\* many writes, and by how much they moved N_iter_taken; and of the
\* iteration under way, how many times the top of the loop has evaluated the
\* residuals and the unknowns it evaluated them at; and of the line search
\* under way, whether it has backtracked
NoGhost == [fd_evaluations |-> 0, jacobian_calls |-> 0, solves |-> 0,
            line_searches |-> 0, updates |-> 0, given |-> <<>>,
            left |-> 0, previous |-> "none", raced |-> 0, foreign |-> 0,
            before |-> <<>>, evaluations |-> 0, start |-> <<>>,
            backtracked |-> FALSE]

\* what a call has asked of its collaborators, in the order residual
\* evaluations for differences, Jacobians, solves, line searches, updates
Asked ==
  <<ghost.fd_evaluations, ghost.jacobian_calls, ghost.solves,
    ghost.line_searches, ghost.updates>>

\* the call that has just ended, for the call that follows to be held to:
\* the vector it was given, the unknowns it left, what it asked
Before == [given |-> ghost.given, unknowns |-> unknowns, asked |-> Asked]

Bump(field) == [ghost EXCEPT ![field] = @ + 1]

Init ==
  /\ Max_iter = Default_Max_iter
  /\ N_iter_taken = 0
  /\ Doc_Progress = FALSE
  /\ FD_step = Default_FD_step
  /\ Tol = Default_Tol
  /\ Use_step_length_control = FALSE
  /\ residual_fct = "none" /\ params = <<>> /\ unknowns = <<>>
  /\ jacobian_fct = "NULL"
  /\ pc = "idle"
  /\ iloop = 0 /\ residuals = <<>> /\ jacobian = <<>> /\ gradient = <<>>
  /\ newton_direction = <<>>
  /\ half_residual_squared = Zero /\ max_step = Zero /\ fd_i = 0 /\ backup = Zero
  /\ x_old = <<>> /\ half_residual_squared_old = Zero /\ slope = Zero
  /\ lambda_min = Zero /\ lambda = Zero /\ lambda_aux = Zero /\ f_aux = Zero
  /\ outcome = "none" /\ calls = 0 /\ oomph_info = 0 /\ warnings = 0
  /\ ghost = NoGhost

\* ------------------------------------------------------------------------
\* The caller
\* ------------------------------------------------------------------------
\* Enter without line 85: N_iter_taken keeps what the last call left
EnterStale(x) ==
  /\ N_iter_taken' = N_iter_taken
  /\ pc' = "loop"
  /\ iloop' = 0
  /\ residuals' = ZeroVector(Len(x))
  /\ jacobian' = ZeroMatrix(Len(x))
  /\ gradient' = ZeroVector(Len(x))
  /\ newton_direction' = ZeroVector(Len(x))
  /\ half_residual_squared' = Zero
  /\ max_step' = Zero
  /\ fd_i' = 0 /\ backup' = Zero
  /\ outcome' = "running"
  /\ ghost' = [NoGhost EXCEPT !.given = x, !.left = N_iter_taken,
                               !.previous = outcome, !.before = Before]
  /\ UNCHANGED <<search_locals, calls, oomph_info, warnings>>

\* entry of black_box_fd_newton_solve on the vector x: the locals, and
\* N_iter_taken = 0
Enter(x) ==
  /\ N_iter_taken' = 0
  /\ pc' = "loop"
  /\ iloop' = 0
  /\ residuals' = ZeroVector(Len(x))
  /\ jacobian' = ZeroMatrix(Len(x))
  /\ gradient' = ZeroVector(Len(x))
  /\ newton_direction' = ZeroVector(Len(x))
  /\ half_residual_squared' = Zero
  /\ max_step' = Zero
  /\ fd_i' = 0 /\ backup' = Zero
  /\ outcome' = "running"
  /\ ghost' = [NoGhost EXCEPT !.given = x, !.left = N_iter_taken,
                               !.previous = outcome, !.before = Before]
  /\ UNCHANGED <<search_locals, calls, oomph_info, warnings>>

\* the caller assigns the configuration and calls the solver
Call(c, p) ==
  /\ pc = "idle" /\ calls = 0
  /\ Max_iter' = c.Max_iter
  /\ Use_step_length_control' = c.Use_step_length_control
  /\ Doc_Progress' = c.Doc_Progress
  /\ FD_step' = c.FD_step
  /\ Tol' = c.Tol
  /\ residual_fct' = p.residual_fct
  /\ params' = p.params
  /\ unknowns' = p.unknowns
  /\ jacobian_fct' = p.jacobian_fct
  /\ Enter(p.unknowns)

\* the caller invokes the solver again, on the vector the last call left
CallAgain ==
  /\ pc = "idle" /\ calls > 0 /\ calls < MaxCalls
  /\ Enter(unknowns)
  /\ UNCHANGED <<config, args, unknowns>>

\* leaving black_box_fd_newton_solve, by return or by throw: its locals die
Leave(how) ==
  /\ pc' = "idle"
  /\ outcome' = how
  /\ calls' = calls + 1
  /\ iloop' = 0 /\ residuals' = <<>> /\ jacobian' = <<>> /\ gradient' = <<>>
  /\ newton_direction' = <<>>
  /\ half_residual_squared' = Zero /\ max_step' = Zero /\ fd_i' = 0
  /\ backup' = Zero
  /\ x_old' = <<>> /\ half_residual_squared_old' = Zero /\ slope' = Zero
  /\ lambda_min' = Zero /\ lambda' = Zero /\ lambda_aux' = Zero /\ f_aux' = Zero


\* ------------------------------------------------------------------------
\* black_box_fd_newton_solve
\* ------------------------------------------------------------------------
\* lines written to oomph_info, when Doc_Progress asks for them
Logged(n) == IF Doc_Progress THEN oomph_info + n ELSE oomph_info

\* top of the loop: the residuals at the current unknowns and, with step
\* length control, half their square and the largest step allowed
EvaluateResiduals ==
  /\ pc = "loop" /\ iloop < Max_iter
  /\ residuals' = CallResidualFct(residual_fct, params, unknowns)
  /\ IF Use_step_length_control
     THEN /\ half_residual_squared' = HalfSquared(residuals')
          /\ max_step' = FMul(D(100), FMax(FSqrt(Dot(unknowns, unknowns)), D(ndof)))
     ELSE UNCHANGED <<half_residual_squared, max_step>>
  /\ oomph_info' = Logged(1 + ndof)
  /\ ghost' = [ghost EXCEPT !.evaluations = @ + 1, !.start = unknowns]
  /\ pc' = "check"
  /\ UNCHANGED <<config, N_iter_taken, args, unknowns, iloop, jacobian, gradient,
                 newton_direction, fd_i, backup, search_locals, outcome, calls,
                 warnings>>

max_res == MaxAbs(residuals)

\* Converged without the test of line 128: a return whatever max_res is
ConvergedUntested ==
  /\ pc = "check"
  /\ Leave("returned")
  /\ UNCHANGED <<config, N_iter_taken, args, unknowns, oomph_info, warnings, ghost>>

\* Converged with the return of line 130 inside the Doc_Progress block of
\* lines 115-124 as well: a documented iteration returns
ConvergedOrLogged ==
  /\ pc = "check" /\ (FLt(max_res, Tol) \/ Doc_Progress)
  /\ Leave("returned")
  /\ UNCHANGED <<config, N_iter_taken, args, unknowns, oomph_info, warnings, ghost>>

\* if (max_res < Tol) return;
Converged ==
  /\ pc = "check" /\ FLt(max_res, Tol)
  /\ Leave("returned")
  /\ UNCHANGED <<config, N_iter_taken, args, unknowns, oomph_info, warnings, ghost>>

\* NextIteration without line 134: the step is not counted
NextIterationUncounted ==
  /\ pc = "check" /\ ~FLt(max_res, Tol)
  /\ fd_i' = 1
  /\ pc' = IF jacobian_fct = "NULL" THEN "fd" ELSE "analytic"
  /\ UNCHANGED <<config, N_iter_taken, args, unknowns, iloop, residuals, jacobian,
                 gradient, newton_direction, half_residual_squared, max_step,
                 backup, search_locals, observed>>

\* NextIteration taken whatever max_res is: a step from a converged vector
NextIterationUnguarded ==
  /\ pc = "check"
  /\ N_iter_taken' = N_iter_taken + 1
  /\ fd_i' = 1
  /\ pc' = IF jacobian_fct = "NULL" THEN "fd" ELSE "analytic"
  /\ UNCHANGED <<config, args, unknowns, iloop, residuals, jacobian, gradient,
                 newton_direction, half_residual_squared, max_step, backup,
                 search_locals, observed>>

\* NextIteration counting in Max_iter for the N_iter_taken of line 134: the
\* budget is used up where the steps should be counted
NextIterationCountsDown ==
  /\ pc = "check" /\ ~FLt(max_res, Tol)
  /\ Max_iter' = Max_iter - 1
  /\ fd_i' = 1
  /\ pc' = IF jacobian_fct = "NULL" THEN "fd" ELSE "analytic"
  /\ UNCHANGED <<Doc_Progress, FD_step, Tol, Use_step_length_control,
                 N_iter_taken, args, unknowns, iloop, residuals, jacobian,
                 gradient, newton_direction, half_residual_squared, max_step,
                 backup, search_locals, observed>>

\* N_iter_taken++, on to the Jacobian
NextIteration ==
  /\ pc = "check" /\ ~FLt(max_res, Tol)
  /\ N_iter_taken' = N_iter_taken + 1
  /\ fd_i' = 1
  /\ pc' = IF jacobian_fct = "NULL" THEN "fd" ELSE "analytic"
  /\ UNCHANGED <<config, args, unknowns, iloop, residuals, jacobian, gradient,
                 newton_direction, half_residual_squared, max_step, backup,
                 search_locals, observed>>

\* double backup = unknowns[i]; unknowns[i] += FD_step;
FDPerturb ==
  /\ pc = "fd"
  /\ backup' = unknowns[fd_i]
  /\ unknowns' = [unknowns EXCEPT ![fd_i] = FAdd(@, FD_step)]
  /\ pc' = "fd_column"
  /\ UNCHANGED <<config, N_iter_taken, args, iloop, residuals, jacobian, gradient,
                 newton_direction, half_residual_squared, max_step, fd_i,
                 search_locals, observed>>

\* FDColumnFrom without the division by FD_step of line 151
FDColumnUndivided(residuals_pls) ==
  [j \in 1..ndof |->
     [jacobian[j] EXCEPT ![fd_i] = FSub(residuals_pls[j], residuals[j])]]

\* column i of the Jacobian from the advanced residuals
FDColumnFrom(residuals_pls) ==
  [j \in 1..ndof |->
     [jacobian[j] EXCEPT ![fd_i] = FDiv(FSub(residuals_pls[j], residuals[j]), FD_step)]]

\* FDColumn without line 155: unknowns[i] stays advanced
FDColumnKeepsAdvance ==
  /\ pc = "fd_column"
  /\ jacobian' = FDColumnFrom(CallResidualFct(residual_fct, params, unknowns))
  /\ fd_i' = fd_i + 1
  /\ pc' = IF fd_i < ndof THEN "fd" ELSE "solve"
  /\ ghost' = Bump("fd_evaluations")
  /\ UNCHANGED <<config, N_iter_taken, args, unknowns, iloop, residuals, gradient,
                 newton_direction, half_residual_squared, max_step, backup,
                 search_locals, outcome, calls, oomph_info, warnings>>

\* residual_fct at the advanced unknowns, the column, unknowns[i] = backup
FDColumn ==
  /\ pc = "fd_column"
  /\ jacobian' = FDColumnFrom(CallResidualFct(residual_fct, params, unknowns))
  /\ unknowns' = [unknowns EXCEPT ![fd_i] = backup]
  /\ fd_i' = fd_i + 1
  /\ pc' = IF fd_i < ndof THEN "fd" ELSE "solve"
  /\ ghost' = Bump("fd_evaluations")
  /\ UNCHANGED <<config, N_iter_taken, args, iloop, residuals, gradient,
                 newton_direction, half_residual_squared, max_step, backup,
                 search_locals, outcome, calls, oomph_info, warnings>>

\* AnalyticJacobian handing jacobian_fct a zeroed vector for the params of
\* line 161
AnalyticJacobianOfNoParams ==
  /\ pc = "analytic"
  /\ jacobian' = CallJacobianFct(residual_fct, ZeroVector(Len(params)), unknowns)
  /\ ghost' = Bump("jacobian_calls")
  /\ pc' = "solve"
  /\ UNCHANGED <<config, N_iter_taken, args, unknowns, iloop, residuals, gradient,
                 newton_direction, half_residual_squared, max_step, fd_i, backup,
                 search_locals, outcome, calls, oomph_info, warnings>>

\* jacobian_fct(params, unknowns, jacobian);
AnalyticJacobian ==
  /\ pc = "analytic"
  /\ jacobian' = CallJacobianFct(residual_fct, params, unknowns)
  /\ ghost' = Bump("jacobian_calls")
  /\ pc' = "solve"
  /\ UNCHANGED <<config, N_iter_taken, args, unknowns, iloop, residuals, gradient,
                 newton_direction, half_residual_squared, max_step, fd_i, backup,
                 search_locals, outcome, calls, oomph_info, warnings>>

\* gradient[i] = sum over j of jacobian(j, i) * residuals[j]
RECURSIVE GradientSum(_, _)
GradientSum(i, n) ==
  IF n = 0 THEN Zero
  ELSE FAdd(GradientSum(i, n - 1), FMul(jacobian[n][i], residuals[n]))

\* the gradient, then jacobian.solve(residuals, newton_direction) giving d
Solved(d) ==
  /\ d.ok
  /\ newton_direction' = d.x
  /\ gradient' = IF Use_step_length_control
                 THEN [i \in 1..ndof |-> GradientSum(i, ndof)]
                 ELSE gradient
  /\ oomph_info' = Logged(2)
  /\ ghost' = Bump("solves")
  /\ pc' = IF Use_step_length_control THEN "search" ELSE "update"
  /\ UNCHANGED <<config, N_iter_taken, args, unknowns, iloop, residuals, jacobian,
                 half_residual_squared, max_step, fd_i, backup, search_locals,
                 outcome, calls, warnings>>

Solve == pc = "solve" /\ Solved(DenseSolve(jacobian, residuals))

\* SolveFails with the error of jacobian.solve caught in the loop: the
\* iteration is given up and the loop goes round
SolveFailsGoesOn ==
  /\ pc = "solve"
  /\ ~DenseSolve(jacobian, residuals).ok
  /\ oomph_info' = Logged(2)
  /\ ghost' = Bump("solves")
  /\ iloop' = iloop + 1
  /\ pc' = "loop"
  /\ UNCHANGED <<config, N_iter_taken, args, unknowns, residuals, jacobian,
                 gradient, newton_direction, half_residual_squared, max_step,
                 fd_i, backup, search_locals, outcome, calls, warnings>>

\* jacobian.solve throws: the error leaves the solver
SolveFails ==
  /\ pc = "solve"
  /\ ~DenseSolve(jacobian, residuals).ok
  /\ oomph_info' = Logged(2)
  /\ ghost' = Bump("solves")
  /\ Leave("LinearSolveError")
  /\ UNCHANGED <<config, N_iter_taken, args, unknowns, warnings>>

\* DirectUpdate with += for the -= of line 214
DirectUpdateAdded ==
  /\ pc = "update"
  /\ unknowns' = [i \in 1..ndof |-> FAdd(unknowns[i], newton_direction[i])]
  /\ iloop' = iloop + 1
  /\ ghost' = Bump("updates")
  /\ pc' = "loop"
  /\ UNCHANGED <<config, N_iter_taken, args, residuals, jacobian, gradient,
                 newton_direction, half_residual_squared, max_step, fd_i, backup,
                 search_locals, outcome, calls, oomph_info, warnings>>

\* DirectUpdate evaluating the residuals at the updated unknowns as well,
\* ahead of the evaluation at the top of the loop
DirectUpdateReevaluates ==
  /\ pc = "update"
  /\ unknowns' = [i \in 1..ndof |-> FSub(unknowns[i], newton_direction[i])]
  /\ residuals' = CallResidualFct(residual_fct, params, unknowns')
  /\ iloop' = iloop + 1
  /\ ghost' = [ghost EXCEPT !.updates = @ + 1, !.evaluations = @ + 1]
  /\ pc' = "loop"
  /\ UNCHANGED <<config, N_iter_taken, args, jacobian, gradient,
                 newton_direction, half_residual_squared, max_step, fd_i, backup,
                 search_locals, outcome, calls, oomph_info, warnings>>

\* unknowns[i] -= newton_direction[i];
DirectUpdate ==
  /\ pc = "update"
  /\ unknowns' = [i \in 1..ndof |-> FSub(unknowns[i], newton_direction[i])]
  /\ iloop' = iloop + 1
  /\ ghost' = Bump("updates")
  /\ pc' = "loop"
  /\ UNCHANGED <<config, N_iter_taken, args, residuals, jacobian, gradient,
                 newton_direction, half_residual_squared, max_step, fd_i, backup,
                 search_locals, outcome, calls, oomph_info, warnings>>

\* FailToConverge without the throw of line 225: the solver falls off its end
FailToConvergeQuietly ==
  /\ pc = "loop" /\ ~(iloop < Max_iter)
  /\ Leave("returned")
  /\ UNCHANGED <<config, N_iter_taken, args, unknowns, oomph_info, warnings, ghost>>

\* after the loop: throw OomphLibError("Newton solver did not converge ...")
FailToConverge ==
  /\ pc = "loop" /\ ~(iloop < Max_iter)
  /\ Leave("ConvergenceFailure")
  /\ UNCHANGED <<config, N_iter_taken, args, unknowns, oomph_info, warnings, ghost>>

\* ------------------------------------------------------------------------
\* line_search
\* ------------------------------------------------------------------------
\* if (sum > stpmax) newton_dir[i] *= stpmax / sum, for sum the norm of dir
Capped(dir, sum) ==
  IF FGt(sum, max_step)
  THEN [i \in 1..Len(dir) |-> FMul(dir[i], FDiv(max_step, sum))]
  ELSE dir

CappedDirection(dir) == Capped(dir, FSqrt(Dot(dir, dir)))

\* newton_direction[i] *= -1.0; the call of line_search on a copy of the
\* unknowns; in it the cap on the direction and the slope
LineSearchCall ==
  /\ pc = "search"
  /\ newton_direction' =
       CappedDirection([i \in 1..ndof |-> FMul(newton_direction[i], D(-1))])
  /\ slope' = Dot(gradient, newton_direction')
  /\ x_old' = unknowns
  /\ half_residual_squared_old' = half_residual_squared
  /\ lambda_aux' = Zero
  /\ f_aux' = Zero
  /\ ghost' = [ghost EXCEPT !.line_searches = @ + 1, !.backtracked = FALSE]
  /\ pc' = "slope"
  /\ UNCHANGED <<config, N_iter_taken, args, unknowns, iloop, residuals, jacobian,
                 gradient, half_residual_squared, max_step, fd_i, backup,
                 lambda_min, lambda, outcome, calls, oomph_info, warnings>>

\* if (slope >= 0.0) throw OomphLibError("Roundoff problem in lnsrch ...")
RoundoffError ==
  /\ pc = "slope"
  /\ FGe(slope, Zero)
  /\ Leave("RoundoffError")
  /\ UNCHANGED <<config, N_iter_taken, args, unknowns, oomph_info, warnings, ghost>>

Larger(temp, test) == IF FGt(temp, test) THEN temp ELSE test

\* test = max over i of fabs(dir[i]) / max(fabs(x_old[i]), 1.0)
RECURSIVE TestUpTo(_, _, _)
TestUpTo(dir, xo, n) ==
  IF n = 0 THEN Zero
  ELSE Larger(FDiv(FAbs(dir[n]), FMax(FAbs(xo[n]), D(1))), TestUpTo(dir, xo, n - 1))

\* LineSearchEnter without the test of line 267: the search goes on whatever
\* the slope
LineSearchEnterUnguarded ==
  /\ pc = "slope"
  /\ lambda_min' = FDiv(convergence_tol_on_x, TestUpTo(newton_direction, x_old, ndof))
  /\ lambda' = D(1)
  /\ pc' = "trial"
  /\ UNCHANGED <<config, N_iter_taken, args, unknowns, solve_locals, x_old,
                 half_residual_squared_old, slope, lambda_aux, f_aux, observed>>

\* slope < 0: lambda_min and the first lambda
LineSearchEnter ==
  /\ pc = "slope"
  /\ ~FGe(slope, Zero)
  /\ lambda_min' = FDiv(convergence_tol_on_x, TestUpTo(newton_direction, x_old, ndof))
  /\ lambda' = D(1)
  /\ pc' = "trial"
  /\ UNCHANGED <<config, N_iter_taken, args, unknowns, solve_locals, x_old,
                 half_residual_squared_old, slope, lambda_aux, f_aux, observed>>

\* LineSearchTrial with x = x_old - lambda * newton_dir for the + of line 287
LineSearchTrialSubtracts ==
  /\ pc = "trial"
  /\ unknowns' = [i \in 1..ndof |-> FSub(x_old[i], FMul(lambda, newton_direction[i]))]
  /\ half_residual_squared' =
       HalfSquared(CallResidualFct(residual_fct, params, unknowns'))
  /\ pc' = "decide"
  /\ UNCHANGED <<config, N_iter_taken, args, iloop, residuals, jacobian, gradient,
                 newton_direction, max_step, fd_i, backup, search_locals, observed>>

\* x = x_old + lambda * newton_dir and half the squared residual there;
\* x is the driver's unknowns, half_residual_squared the driver's variable
LineSearchTrial ==
  /\ pc = "trial"
  /\ unknowns' = [i \in 1..ndof |-> FAdd(x_old[i], FMul(lambda, newton_direction[i]))]
  /\ half_residual_squared' =
       HalfSquared(CallResidualFct(residual_fct, params, unknowns'))
  /\ pc' = "decide"
  /\ UNCHANGED <<config, N_iter_taken, args, iloop, residuals, jacobian, gradient,
                 newton_direction, max_step, fd_i, backup, search_locals, observed>>

\* line_search returns to the driver, whose loop goes round
ReturnFromSearch ==
  /\ iloop' = iloop + 1
  /\ ghost' = Bump("updates")
  /\ pc' = "loop"
  /\ x_old' = <<>> /\ half_residual_squared_old' = Zero /\ slope' = Zero
  /\ lambda_min' = Zero /\ lambda' = Zero /\ lambda_aux' = Zero /\ f_aux' = Zero
  /\ UNCHANGED <<config, N_iter_taken, args, residuals, jacobian, gradient,
                 newton_direction, max_step, fd_i, backup, outcome, calls,
                 oomph_info>>

\* LineSearchStagnate without line 302: the trial point is what x keeps
LineSearchStagnateKeepsTrial ==
  /\ pc = "decide"
  /\ FLt(lambda, lambda_min)
  /\ warnings' = warnings + 1
  /\ ReturnFromSearch
  /\ UNCHANGED <<unknowns, half_residual_squared>>

\* if (lambda < lambda_min): x = x_old, a warning, return
LineSearchStagnate ==
  /\ pc = "decide"
  /\ FLt(lambda, lambda_min)
  /\ unknowns' = x_old
  /\ warnings' = warnings + 1
  /\ ReturnFromSearch
  /\ UNCHANGED half_residual_squared

SufficientDecrease ==
  FLe(half_residual_squared,
      FAdd(half_residual_squared_old, FMul(FMul(min_fct_decrease, lambda), slope)))

\* LineSearchAccept without the test of lines 310-311: any trial is accepted
LineSearchAcceptUntested ==
  /\ pc = "decide"
  /\ ~FLt(lambda, lambda_min)
  /\ ReturnFromSearch
  /\ UNCHANGED <<unknowns, half_residual_squared, warnings>>

\* LineSearchAccept with the test of line 310 made before that of line 300:
\* a trial of sufficient decrease is accepted however short its step
LineSearchAcceptFirst ==
  /\ pc = "decide"
  /\ SufficientDecrease
  /\ ReturnFromSearch
  /\ UNCHANGED <<unknowns, half_residual_squared, warnings>>

\* else if (half_residual_squared <= ... + min_fct_decrease * lambda * slope) return
LineSearchAccept ==
  /\ pc = "decide"
  /\ ~FLt(lambda, lambda_min)
  /\ SufficientDecrease
  /\ ReturnFromSearch
  /\ UNCHANGED <<unknowns, half_residual_squared, warnings>>

\* proposed_lambda = -slope / (2.0 * (half_residual_squared -
\*                                    half_residual_squared_old - slope))
QuadraticStep ==
  FDiv(FNeg(slope),
       FMul(D(2), FSub(FSub(half_residual_squared, half_residual_squared_old), slope)))

\* the stationary point of the cubic with coefficients a_poly, b_poly
CubicRoot(a_poly, b_poly, discriminant) ==
  IF FLt(discriminant, Zero) THEN FMul(Half, lambda)
  ELSE IF FLe(b_poly, Zero)
  THEN FDiv(FAdd(FNeg(b_poly), FSqrt(discriminant)), FMul(D(3), a_poly))
  ELSE FDiv(FNeg(slope), FAdd(b_poly, FSqrt(discriminant)))

CubicFit(a_poly, b_poly) ==
  IF FEq(a_poly, Zero) THEN FDiv(FNeg(slope), FMul(D(2), b_poly))
  ELSE CubicRoot(a_poly, b_poly,
                 FSub(FMul(b_poly, b_poly), FMul(FMul(D(3), a_poly), slope)))

CubicFrom(r1, r2) ==
  CubicFit(FDiv(FSub(FDiv(r1, FMul(lambda, lambda)),
                     FDiv(r2, FMul(lambda_aux, lambda_aux))),
                FSub(lambda, lambda_aux)),
           FDiv(FAdd(FDiv(FMul(FNeg(lambda_aux), r1), FMul(lambda, lambda)),
                     FDiv(FMul(lambda, r2), FMul(lambda_aux, lambda_aux))),
                FSub(lambda, lambda_aux)))

\* if (proposed_lambda > 0.5 * lambda) proposed_lambda = 0.5 * lambda;
AtMostHalf(p) == IF FGt(p, FMul(Half, lambda)) THEN FMul(Half, lambda) ELSE p

CubicStep ==
  AtMostHalf(CubicFrom(FSub(FSub(half_residual_squared, half_residual_squared_old),
                            FMul(lambda, slope)),
                       FSub(FSub(f_aux, half_residual_squared_old),
                            FMul(lambda_aux, slope))))

\* the step length the quadratic or the cubic model proposes
proposed_lambda == IF FEq(lambda, D(1)) THEN QuadraticStep ELSE CubicStep

\* else: backtrack; lambda = std::max(proposed_lambda, 0.1 * lambda)
LineSearchBacktrack ==
  /\ pc = "decide"
  /\ ~FLt(lambda, lambda_min)
  /\ ~SufficientDecrease
  /\ lambda_aux' = lambda
  /\ f_aux' = half_residual_squared
  /\ lambda' = FMax(proposed_lambda, FMul(Tenth, lambda))
  /\ ghost' = [ghost EXCEPT !.backtracked = TRUE]
  /\ pc' = "trial"
  /\ UNCHANGED <<config, N_iter_taken, args, unknowns, iloop, residuals, jacobian,
                 gradient, newton_direction, half_residual_squared, max_step, fd_i,
                 backup, x_old, half_residual_squared_old, slope, lambda_min,
                 outcome, calls, oomph_info, warnings>>

\* ------------------------------------------------------------------------
Next ==
  \/ \E s \in Scenarios : Call(s.config, s.problem)
  \/ CallAgain
  \/ EvaluateResiduals
  \/ Converged
  \/ NextIteration
  \/ FDPerturb
  \/ FDColumn
  \/ AnalyticJacobian
  \/ Solve
  \/ SolveFails
  \/ DirectUpdate
  \/ FailToConverge
  \/ LineSearchCall
  \/ RoundoffError
  \/ LineSearchEnter
  \/ LineSearchTrial
  \/ LineSearchStagnate
  \/ LineSearchAccept
  \/ LineSearchBacktrack

Spec == Init /\ [][Next]_vars

\* where control can be: between calls, in the driver, in line_search
Positions ==
  {"idle", "loop", "check", "fd", "fd_column", "analytic", "solve", "update",
   "search", "slope", "trial", "decide"}

\* control moves on: a call under way is at some position after its step
Advance == pc # "idle" /\ pc' \in Positions

\* a call, once entered, keeps executing: every step of Next moves control,
\* and control that can move on does not wait for ever.  Nothing obliges a
\* caller to call.
FairSpec == Spec /\ WF_pc(Advance)

\* every step moves control to one of the positions
TypeOfControl == pc \in Positions
ControlMoves == [][pc' # pc]_vars

\* ------------------------------------------------------------------------
\* Properties
\* ------------------------------------------------------------------------
\* a call has ended and the caller looks at what it left
Ended == pc = "idle" /\ calls >= 1
Returned == Ended /\ outcome = "returned"

\* the residuals at the unknowns as they are now, and at the vector given
ResidualsNow == CallResidualFct(residual_fct, params, unknowns)
ResidualsGiven == CallResidualFct(residual_fct, params, ghost.given)
AlreadyConverged == FLt(MaxAbs(ResidualsGiven), Tol)

\* C1: whenever black_box_fd_newton_solve has returned normally, the largest
\* absolute residual at the returned unknowns is strictly below Tol.
C1_ReturnedBelowTol == Returned => FLt(MaxAbs(ResidualsNow), Tol)

\* a normal return after two or more steps taken with step length control
C1_Witness == Returned /\ Use_step_length_control /\ N_iter_taken >= 2

\* C2: the solver ends with ConvergenceFailure only if the largest absolute
\* residual at the unknowns it leaves is still not below Tol.
C2_FailureOnlyAboveTol ==
  (Ended /\ outcome = "ConvergenceFailure") => ~FLt(MaxAbs(ResidualsNow), Tol)

\* a Newton step has been started and its linear solve is still to come
InStep == pc \in {"fd", "fd_column", "analytic", "solve"}

\* C3: in every state N_iter_taken is the number of Newton steps started in
\* this invocation (the linear solves done, and the step under way), it never
\* exceeds Max_iter, and on normal return it is the number of updates applied
\* to the unknowns.
C3_CountsSteps ==
  /\ N_iter_taken = ghost.solves + (IF InStep THEN 1 ELSE 0)
  /\ N_iter_taken <= Max_iter
  /\ (jacobian_fct = "NULL" /\ pc # "idle" /\ InStep =>
        ghost.fd_evaluations = ndof * (N_iter_taken - 1) + (fd_i - 1))
  /\ (jacobian_fct # "NULL" =>
        ghost.jacobian_calls = N_iter_taken - (IF pc = "analytic" THEN 1 ELSE 0))
  /\ (Returned => N_iter_taken = ghost.updates)

\* the last step the budget allows is under way
C3_Witness == pc = "solve" /\ N_iter_taken = Max_iter /\ Max_iter = Default_Max_iter

\* C4: every invocation starts by setting N_iter_taken to 0, inside an
\* invocation it only goes up by one at a time, and what the caller reads
\* after a call is the number of linear solves of that call alone.
C4_ResetOnEntry ==
  [][/\ (pc = "idle" => N_iter_taken' = 0)
     /\ (pc # "idle" => N_iter_taken' \in {N_iter_taken, N_iter_taken + 1})
     /\ (pc' = "idle" => N_iter_taken' = ghost'.solves)]_vars

\* a second call has ended with fewer steps than the call before it left
C4_Witness == Ended /\ calls = 2 /\ ghost.left > 0 /\ N_iter_taken < ghost.left

\* C5: a call on unknowns whose residual is already below Tol, such as a call
\* right after a successful one, returns normally with N_iter_taken = 0 and
\* the unknowns unchanged, having built no Jacobian, solved no system and
\* searched no line; and while it runs it only evaluates and checks.
C5_Idempotent ==
  /\ (Ended /\ (AlreadyConverged \/ ghost.previous = "returned")) =>
       /\ outcome = "returned"
       /\ N_iter_taken = 0
       /\ unknowns = ghost.given
       /\ ghost.fd_evaluations = 0 /\ ghost.jacobian_calls = 0
       /\ ghost.solves = 0 /\ ghost.line_searches = 0 /\ ghost.updates = 0
  /\ (pc # "idle" /\ AlreadyConverged) =>
       pc \in {"loop", "check"} /\ unknowns = ghost.given

\* a second solve right after a successful solve that took steps
C5_Witness ==
  Ended /\ calls = 2 /\ ghost.previous = "returned" /\ ghost.left > 0
        /\ outcome = "returned" /\ N_iter_taken = 0

\* a linear residual with its analytic Jacobian under the default
\* configuration, after the call
LinearAnalytic ==
  /\ Ended
  /\ residual_fct = "linear" /\ jacobian_fct = "analytic"
  /\ ~Use_step_length_control /\ Max_iter = Default_Max_iter

IdentityFromFive ==
  /\ Ended
  /\ residual_fct = "identity" /\ ghost.given = <<D(5)>>
  /\ Tol = Default_Tol /\ Max_iter = Default_Max_iter

\* C7 as stated: r(x) = x from x = 5 returns with N_iter_taken = 1 and x
\* within the tolerance of 0, with the finite-difference Jacobian and with
\* the analytic one.
C7_OneStepEitherJacobian ==
  IdentityFromFive =>
    /\ outcome = "returned"
    /\ N_iter_taken = 1
    /\ FLt(FAbs(unknowns[1]), Tol)

\* C7: r(x) = x from x = 5 returns with x within the tolerance of 0, with
\* N_iter_taken = 1 under the analytic Jacobian and N_iter_taken = 2 under
\* the finite-difference one.
C7_TwoStepsByDifferences ==
  IdentityFromFive =>
    /\ outcome = "returned"
    /\ N_iter_taken = (IF jacobian_fct = "NULL" THEN 2 ELSE 1)
    /\ FLt(FAbs(unknowns[1]), Tol)

\* the finite-difference solve has returned
C7_Witness == IdentityFromFive /\ jacobian_fct = "NULL" /\ outcome = "returned"

\* r(x) = x^2 + 1 under the default configuration, after the call
NoRoot ==
  /\ Ended
  /\ residual_fct = "square_plus_one"
  /\ ~Use_step_length_control /\ Max_iter = Default_Max_iter

\* C8 as stated: r(x) = x^2 + 1 ends from every initial guess with
\* ConvergenceFailure and N_iter_taken = Max_iter.
C8_AlwaysConvergenceFailure ==
  NoRoot => outcome = "ConvergenceFailure" /\ N_iter_taken = Max_iter

\* C8: r(x) = x^2 + 1 never returns normally: the call ends with
\* ConvergenceFailure and N_iter_taken = Max_iter, unless the Jacobian at
\* some iterate is singular, when it ends with the error of the linear solve
\* in the step that met it, before that step's update, N_iter_taken being
\* between 1 and Max_iter.
C8_FailureOrSingular ==
  NoRoot =>
    \/ outcome = "ConvergenceFailure" /\ N_iter_taken = Max_iter
    \/ /\ outcome = "LinearSolveError"
       /\ N_iter_taken \in 1..Max_iter
       /\ ghost.updates = N_iter_taken - 1

\* the linear solve has failed in the second step
C8_Witness == NoRoot /\ outcome = "LinearSolveError" /\ N_iter_taken = 2

\* C9: line_search terminates: a trial is always followed by the return to
\* the driver's loop.
C9_LineSearchTerminates == (pc = "trial") ~> (pc = "loop")

\* C10: on every return of line_search half_residual_squared is half the sum
\* of the squares of the residuals at the unknowns returned.
C10_MeritMatchesUnknowns ==
  (pc = "loop" /\ Use_step_length_control /\ iloop > 0) =>
    half_residual_squared = HalfSquared(ResidualsNow)

\* line_search returns, by its warning exit or by accepting the trial
SearchReturns == pc = "decide" /\ pc' = "loop"
AcceptedReturn == SearchReturns /\ warnings' = warnings
WarnedReturn == SearchReturns /\ warnings' = warnings + 1

\* the trial point of step length l from x_old along the capped direction
TrialPoint(l) == [i \in 1..ndof |-> FAdd(x_old[i], FMul(l, newton_direction[i]))]

\* C11: whenever line_search returns by accepting a step, the step length
\* lambda is in (0, 1], the returned x is x_old + lambda * direction for the
\* capped direction, and the returned merit is at most
\* merit_old + 1e-4 * lambda * slope, slope being gradient . direction.
C11_AcceptedStepDecreases ==
  [][AcceptedReturn =>
       /\ FGt(lambda, Zero) /\ FLe(lambda, D(1))
       /\ unknowns' = TrialPoint(lambda)
       /\ slope = Dot(gradient, newton_direction)
       /\ FLe(half_residual_squared',
              FAdd(half_residual_squared_old,
                   FMul(FMul(min_fct_decrease, lambda), slope)))]_vars

\* a trial after a backtrack is about to be accepted
C11_Witness ==
  /\ pc = "decide" /\ FLt(lambda, D(1)) /\ ~FLt(lambda, lambda_min)
  /\ unknowns = TrialPoint(lambda)
  /\ SufficientDecrease

\* C12: when the slope computed from the capped direction is >= 0,
\* line_search has evaluated no residual and written neither x nor the merit,
\* and its only step is the throw of the roundoff error, which ends the
\* solve with the unknowns the iteration started from and nothing retried.
C12_RoundoffAborts ==
  [][(pc = "slope" /\ FGe(slope, Zero)) =>
       /\ slope = Dot(gradient, newton_direction)
       /\ unknowns = x_old
       /\ half_residual_squared = half_residual_squared_old
       /\ half_residual_squared = HalfSquared(residuals)
       /\ pc' = "idle" /\ outcome' = "RoundoffError"
       /\ unknowns' = x_old
       /\ N_iter_taken' = N_iter_taken
       /\ ghost' = ghost /\ warnings' = warnings]_vars

\* the solve has ended with the roundoff error in its first step, the
\* unknowns being those it was given
C12_Witness ==
  /\ Ended /\ outcome = "RoundoffError"
  /\ ghost.line_searches = 1 /\ ghost.updates = 0
  /\ unknowns = ghost.given

\* C13: whenever the trial step length is below lambda_min, line_search
\* returns normally with a warning and with x = x_old in every component,
\* the solve going on; the trial's sufficient decrease is not looked at.
C13_StagnationRestores ==
  [][(pc = "decide" /\ FLt(lambda, lambda_min)) =>
       /\ WarnedReturn
       /\ unknowns' = x_old
       /\ outcome' = "running" /\ calls' = calls
       /\ iloop' = iloop + 1
       /\ N_iter_taken' = N_iter_taken]_vars

\* the first trial, of step length 1 below lambda_min, is of sufficient
\* decrease and is not the old point
C13_Witness ==
  /\ pc = "decide" /\ lambda = D(1) /\ FLt(lambda, lambda_min)
  /\ SufficientDecrease
  /\ unknowns = TrialPoint(lambda) /\ unknowns # x_old

\* the direction the driver hands to line_search, and a direction's norm
Negated == [i \in 1..ndof |-> FMul(newton_direction[i], D(-1))]
Norm(d) == FSqrt(Dot(d, d))

\* C14: line_search leaves a direction of norm at most the step cap as it
\* is, and multiplies every component of a longer one by cap / norm, the
\* direction it goes on with then having norm exactly the cap.
C14_CappedToStepCap ==
  [][pc = "search" =>
       IF FGt(Norm(Negated), max_step)
       THEN /\ \A i \in 1..ndof :
                 newton_direction'[i] =
                   FMul(Negated[i], FDiv(max_step, Norm(Negated)))
            /\ Norm(newton_direction') = max_step
       ELSE newton_direction' = Negated]_vars

\* the trial step length is below lambda_min: line_search is about to
\* return by its warning exit
StagnationDue == pc = "decide" /\ FLt(lambda, lambda_min)

\* C15 as stated, of the one run a deterministic provider allows: a solve
\* in which line_search has stagnated goes on to return normally.
C15_ReturnsAfterStagnation == StagnationDue ~> (Ended /\ outcome = "returned")

\* C15: after a stagnation the loop goes round on the unchanged iterate,
\* whose residuals are those the iteration started from and so not below
\* Tol; with a deterministic provider the solve then does not return
\* normally: it ends with ConvergenceFailure on that iterate.
C15_StagnationIsFinal ==
  /\ [][WarnedReturn =>
          /\ unknowns' = x_old
          /\ CallResidualFct(residual_fct, params, unknowns') = residuals
          /\ ~FLt(MaxAbs(residuals), Tol)]_vars
  /\ \A c \in 0..MaxCalls :
       []((StagnationDue /\ calls = c) =>
            []((Ended /\ calls = c + 1) => outcome = "ConvergenceFailure"))

\* a solve has ended after stagnating in every one of its iterations
C15_Witness ==
  /\ Ended /\ calls = 1 /\ outcome = "ConvergenceFailure"
  /\ Use_step_length_control
  /\ warnings = Max_iter /\ ghost.updates = Max_iter
  /\ unknowns = ghost.given

\* the Newton step d of the first iteration, J d = r at the vector given, the
\* iterate x - d it leads to, and the step cap of the first iteration
FirstStep ==
  DenseSolve(CallJacobianFct(residual_fct, params, ghost.given), ResidualsGiven).x
FirstIterate == [i \in 1..ndof |-> FSub(ghost.given[i], FirstStep[i])]
FirstCap == FMul(D(100), FMax(Norm(ghost.given), D(ndof)))

\* a linear residual with its analytic Jacobian, the first Newton step
\* being within the cap
LinearWithinCap ==
  /\ residual_fct = "linear" /\ jacobian_fct = "analytic"
  /\ pc # "idle"
  /\ ~FGt(Norm(FirstStep), FirstCap)

\* C16: for a linear residual with its analytic Jacobian and a first step
\* within the cap, the trial of lambda = 1 that the line search of the first
\* iteration accepts with step length control, and the unknowns after the
\* first iteration without it, are both x - d for the Newton step d of the
\* vector given, and so equal.
C16_SameFirstIterate ==
  /\ (/\ LinearWithinCap /\ Use_step_length_control
      /\ pc = "decide" /\ iloop = 0 /\ lambda = D(1))
       => unknowns = FirstIterate
  /\ (/\ LinearWithinCap /\ ~Use_step_length_control
      /\ pc = "loop" /\ iloop = 1)
       => unknowns = FirstIterate

\* the line search of the first iteration is about to accept lambda = 1 on
\* two equations
C16_Witness ==
  /\ LinearWithinCap /\ Use_step_length_control
  /\ pc = "decide" /\ iloop = 0 /\ ndof = 2
  /\ lambda = D(1) /\ ~StagnationDue /\ SufficientDecrease
  /\ unknowns # ghost.given

\* ------------------------------------------------------------------------
\* A second thread
\* ------------------------------------------------------------------------
\* The namespace variables of lines 44-60 are plain globals: a caller on
\* another thread, and the invocation it makes, write them while a solve is
\* under way.  The accesses are unsynchronised; each write below may or may
\* not happen, which covers a write the solve does not get to see.  The
\* solve reads Max_iter at the top of its loop only (line 88) and touches
\* N_iter_taken once an iteration only (line 134), so a write that lands
\* anywhere in an iteration is taken at the top of the loop that follows.
\* The other invocation's locals are its own and are left out.
MaxRaces == 2

\* the configuration the other caller wants for its own solve; of it the
\* solve under way was called without, it differs in Max_iter
OtherConfiguration == Configuration(1, FALSE, FALSE)
OtherMax_iter == OtherConfiguration.Max_iter

Raced(moved) == [ghost EXCEPT !.raced = @ + 1, !.foreign = @ + moved]

\* the other caller assigns Max_iter
OtherCallerConfigures ==
  /\ pc = "loop" /\ ghost.raced < MaxRaces
  /\ Max_iter # OtherMax_iter
  /\ Max_iter' = OtherMax_iter
  /\ ghost' = Raced(0)
  /\ UNCHANGED <<Doc_Progress, FD_step, Tol, Use_step_length_control,
                 N_iter_taken, args, unknowns, pc, solve_locals, search_locals,
                 outcome, calls, oomph_info, warnings>>

\* the other invocation's line 85: N_iter_taken = 0
OtherSolveEnters ==
  /\ pc = "loop" /\ ghost.raced < MaxRaces
  /\ N_iter_taken > 0
  /\ N_iter_taken' = 0
  /\ ghost' = Raced(0 - N_iter_taken)
  /\ UNCHANGED <<config, args, unknowns, pc, solve_locals, search_locals,
                 outcome, calls, oomph_info, warnings>>

\* the other invocation's line 134: N_iter_taken++
OtherSolveCounts ==
  /\ pc = "loop" /\ ghost.raced < MaxRaces
  /\ N_iter_taken' = N_iter_taken + 1
  /\ ghost' = Raced(1)
  /\ UNCHANGED <<config, args, unknowns, pc, solve_locals, search_locals,
                 outcome, calls, oomph_info, warnings>>

\* what the first thread's caller passes: step length control is off, so
\* line_search is not entered
RaceProblems ==
  {Problem("identity", <<>>, <<D(5)>>, j) : j \in Jacobians}
  \cup {Problem("linear", Line, <<D(0)>>, "NULL"),
        Problem("square_plus_one", <<>>, <<D(0)>>, "analytic")}

RaceScenarios ==
  {Scenario(Configuration(Default_Max_iter, FALSE, FALSE), p) : p \in RaceProblems}

\* one solve of the first thread, and the writes of the second
RaceNext ==
  \/ \E s \in RaceScenarios : Call(s.config, s.problem)
  \/ EvaluateResiduals
  \/ Converged
  \/ NextIteration
  \/ FDPerturb
  \/ FDColumn
  \/ AnalyticJacobian
  \/ Solve
  \/ SolveFails
  \/ DirectUpdate
  \/ FailToConverge
  \/ OtherCallerConfigures
  \/ OtherSolveEnters
  \/ OtherSolveCounts

RaceSpec == Init /\ [][RaceNext]_vars

\* C17: with a second thread writing the process-wide state, N_iter_taken
\* is the number of steps the solve has itself started plus what the other
\* thread's writes moved it by, so that what is read after the call differs
\* from the call's own steps whenever they moved it; and a solve called with
\* Max_iter = 20 ends with ConvergenceFailure short of 20 steps only on the
\* Max_iter the other caller wrote.
C17_RaceOnGlobals ==
  /\ N_iter_taken = ghost.solves + (IF InStep THEN 1 ELSE 0) + ghost.foreign
  /\ (Ended /\ outcome = "ConvergenceFailure") =>
       \/ ghost.updates = Default_Max_iter
       \/ ghost.raced > 0 /\ Max_iter = OtherMax_iter /\ ghost.updates >= Max_iter
  /\ (Ended /\ ghost.raced = 0) =>
       Max_iter = Default_Max_iter /\ N_iter_taken = ghost.solves

\* r(x) = x from 5 by finite differences, which alone returns after two
\* steps: the other caller's Max_iter has ended it after one, and the
\* N_iter_taken it leaves is not the one step it took
C17_Witness ==
  /\ Ended /\ residual_fct = "identity" /\ jacobian_fct = "NULL"
  /\ outcome = "ConvergenceFailure"
  /\ ghost.solves = 1 /\ ghost.updates = 1
  /\ N_iter_taken # ghost.solves

\* ------------------------------------------------------------------------
\* The same solve with and without Doc_Progress
\* ------------------------------------------------------------------------
\* the caller sets the unknowns back to the vector the last call was given,
\* turns Doc_Progress over and calls again
CallTwin ==
  /\ pc = "idle" /\ calls > 0 /\ calls < MaxCalls
  /\ Doc_Progress' = ~Doc_Progress
  /\ unknowns' = ghost.given
  /\ Enter(ghost.given)
  /\ UNCHANGED <<Max_iter, FD_step, Tol, Use_step_length_control, args>>

DocNext ==
  \/ \E s \in Scenarios : Call(s.config, s.problem)
  \/ CallTwin
  \/ EvaluateResiduals
  \/ Converged
  \/ NextIteration
  \/ FDPerturb
  \/ FDColumn
  \/ AnalyticJacobian
  \/ Solve
  \/ SolveFails
  \/ DirectUpdate
  \/ FailToConverge
  \/ LineSearchCall
  \/ RoundoffError
  \/ LineSearchEnter
  \/ LineSearchTrial
  \/ LineSearchStagnate
  \/ LineSearchAccept
  \/ LineSearchBacktrack

DocSpec == Init /\ [][DocNext]_vars

InvocationStep == pc # "idle" \/ calls > 0

\* C19: no step of an invocation writes Max_iter, Tol, FD_step,
\* Use_step_length_control or Doc_Progress, so that they are after the
\* call, successful or failed, what they were before it; of the variables of
\* the namespace a call writes N_iter_taken only.
C19_ConfigurationKept ==
  [][InvocationStep =>
       /\ Max_iter' = Max_iter /\ Tol' = Tol /\ FD_step' = FD_step
       /\ Use_step_length_control' = Use_step_length_control
       /\ Doc_Progress' = Doc_Progress]_vars

\* a failed call has counted a step and left a configuration that is not
\* the default one
C19_Witness ==
  /\ Ended /\ outcome = "ConvergenceFailure" /\ N_iter_taken = 1
  /\ Max_iter = 1 /\ Use_step_length_control /\ Doc_Progress

\* C20: no step of an invocation writes the parameters, and every
\* evaluation in it (the residuals at the top of the loop, the advanced
\* residuals of the finite differences, the residuals of a line search
\* trial, the analytic Jacobian) is made on the parameters the caller passed.
C20_ParametersReadOnly ==
  [][/\ InvocationStep => params' = params
     /\ pc = "loop" /\ pc' = "check" =>
          residuals' = CallResidualFct(residual_fct, params', unknowns)
     /\ pc = "fd_column" =>
          jacobian' = FDColumnFrom(CallResidualFct(residual_fct, params', unknowns))
     /\ pc = "analytic" =>
          jacobian' = CallJacobianFct(residual_fct, params', unknowns)
     /\ pc = "trial" =>
          half_residual_squared' =
            HalfSquared(CallResidualFct(residual_fct, params', unknowns'))]_vars

\* a solve in two unknowns with parameters has ended after a line search
C20_Witness ==
  /\ Ended /\ Len(params) > 0 /\ ghost.solves > 0
  /\ ghost.line_searches > 0 /\ ndof = 2

\* jacobian.solve is about to fail on the Jacobian assembled
SolveFailureDue == pc = "solve" /\ ~DenseSolve(jacobian, residuals).ok

\* C21: a failure of the linear solve is the last step of the solve: it
\* ends with the collaborator's error and not with ConvergenceFailure, on
\* the unknowns the iteration started from, and nothing is retried: the call
\* has by then made one evaluation at the top of the loop and one Jacobian
\* per solve attempted, and one update, with step length control one line
\* search, per solve that succeeded.
C21_SolveFailureAborts ==
  /\ [][SolveFailureDue =>
          /\ unknowns = ghost.start
          /\ pc' = "idle" /\ outcome' = "LinearSolveError"
          /\ calls' = calls + 1
          /\ unknowns' = unknowns
          /\ N_iter_taken' = N_iter_taken
          /\ ghost' = Bump("solves") /\ warnings' = warnings]_vars
  /\ []((Ended /\ outcome = "LinearSolveError") =>
          /\ unknowns = ghost.start
          /\ ghost.evaluations = ghost.solves
          /\ ghost.updates = ghost.solves - 1
          /\ ghost.line_searches =
               (IF Use_step_length_control THEN ghost.solves - 1 ELSE 0)
          /\ ghost.jacobian_calls =
               (IF jacobian_fct = "NULL" THEN 0 ELSE ghost.solves)
          /\ ghost.fd_evaluations =
               (IF jacobian_fct = "NULL" THEN ghost.solves * ndof ELSE 0))

\* the solve of the second iteration has failed on a Jacobian assembled by
\* finite differences, the unknowns being those the first iteration left
C21_Witness ==
  /\ Ended /\ outcome = "LinearSolveError"
  /\ jacobian_fct = "NULL" /\ ghost.solves = 2
  /\ unknowns # ghost.given

\* line_search backtracks: it goes from one trial to the next
Backtracks == pc = "decide" /\ pc' = "trial"

\* C22: on every backtrack of line_search, the first one from lambda = 1
\* by the quadratic model included, the next trial lambda is at most half of
\* the trial lambda before it.
C22_AtMostHalfOfPrevious ==
  [][Backtracks => FLe(lambda', FMul(Half, lambda))]_vars

\* line_search is in its loop, lambda being the trial step length
InSearchLoop == pc \in {"trial", "decide"}

\* C23: in line_search every trial lambda lies in (0, 1], the first trial
\* is lambda = 1, and on every backtrack the next trial lambda is at least
\* one tenth of the trial lambda before it, whatever the quadratic or the
\* cubic model proposes.
C23_TrialLambdaInRange ==
  /\ [](InSearchLoop => FGt(lambda, Zero) /\ FLe(lambda, D(1)))
  /\ [][(pc = "slope" /\ pc' = "trial") => lambda' = D(1)]_vars
  /\ [][Backtracks => FGe(lambda', FMul(Tenth, lambda))]_vars

\* the iterate of the iteration under way with component i advanced by
\* FD_step
Advanced(i) == [ghost.start EXCEPT ![i] = FAdd(@, FD_step)]

\* C24: the assembly of the Jacobian by finite differences leaves the
\* unknowns as they were: while column i is assembled only unknowns[i]
\* differs from the iterate, by FD_step, the value saved being the
\* iterate's; it is restored before the next column is advanced, and the
\* linear solve, the update and the line search start from the iterate.
C24_DifferencesRestoreUnknowns ==
  jacobian_fct = "NULL" =>
    /\ pc = "fd" => unknowns = ghost.start
    /\ pc = "fd_column" =>
         /\ unknowns = Advanced(fd_i)
         /\ backup = ghost.start[fd_i]
    /\ pc \in {"solve", "update", "search", "slope"} => unknowns = ghost.start

\* the second column of a Jacobian in two unknowns is being assembled: the
\* first unknown is the iterate's again, the second one is advanced
C24_Witness ==
  /\ jacobian_fct = "NULL" /\ pc = "fd_column" /\ ndof = 2 /\ fd_i = 2
  /\ unknowns[1] = ghost.start[1] /\ unknowns[2] # ghost.start[2]

\* the calls of residual_fct a solve has made: at the top of the loop and
\* for the columns of the finite differences
ResidualCalls == ghost.evaluations + ghost.fd_evaluations

\* C25: without step length control a solve that returns after k Newton
\* steps has called residual_fct (k + 1) + k * N times when no Jacobian
\* function was passed, and k + 1 times when one was, which it has then
\* called k times.
C25_ResidualCallsCounted ==
  (Returned /\ ~Use_step_length_control) =>
    IF jacobian_fct = "NULL"
    THEN /\ ResidualCalls = (N_iter_taken + 1) + N_iter_taken * ndof
         /\ ghost.jacobian_calls = 0
    ELSE /\ ResidualCalls = N_iter_taken + 1
         /\ ghost.jacobian_calls = N_iter_taken

\* a solve in two unknowns by finite differences has returned after two
\* steps or more
C25_Witness ==
  /\ Returned /\ ~Use_step_length_control /\ jacobian_fct = "NULL"
  /\ ndof = 2 /\ N_iter_taken >= 2

\* step length control on a linear residual with the Jacobian function of
\* its matrix: the Jacobian is exact, and so is the linear solve on the
\* systems passed
ExactNewtonStep ==
  /\ Use_step_length_control
  /\ residual_fct = "linear" /\ jacobian_fct = "analytic"

\* C26: with step length control, an exact Jacobian and an exact linear
\* solve, the direction handed to line_search has a negative slope, capped
\* or not, which is minus the sum of the squared residuals for a direction
\* within the cap, and so the roundoff error is never raised.
C26_ExactStepDescends ==
  /\ [][(pc = "search" /\ ExactNewtonStep) =>
          /\ FLt(slope', Zero)
          /\ ~FGt(Norm(Negated), max_step) =>
               /\ slope' = FNeg(Dot(residuals, residuals))
               /\ slope' = FMul(D(-2), half_residual_squared)]_vars
  /\ [](ExactNewtonStep => outcome # "RoundoffError")

\* C27: the quadratic model is used on the first backtrack of a line search
\* and on no later one: lambda == 1.0 holds of the first trial only, every
\* later trial lambda being less than 1, and the later backtracks use the
\* cubic model through the last two trials, lambda with its merit and
\* lambda_aux with f_aux.
C27_QuadraticOnFirstBacktrackOnly ==
  /\ [][Backtracks =>
          /\ FEq(lambda, D(1)) <=> ~ghost.backtracked
          /\ lambda' = FMax(IF ghost.backtracked THEN CubicStep ELSE QuadraticStep,
                            FMul(Tenth, lambda))
          /\ lambda_aux' = lambda /\ f_aux' = half_residual_squared]_vars
  /\ []((InSearchLoop /\ ~ghost.backtracked) => lambda = D(1))
  /\ []((InSearchLoop /\ ghost.backtracked) => FLt(lambda, D(1)))

\* the merit at the vector x: half the sum of the squared residuals there
Merit(x) == HalfSquared(CallResidualFct(residual_fct, params, x))

\* the top of the loop evaluates the residuals, with step length control
NextMerit == pc = "loop" /\ pc' = "check" /\ Use_step_length_control

\* the line search works on the merit of the iterate, and the top of the
\* loop computes the merit of the unknowns anew
MeritOfIterate ==
  /\ SearchReturns => half_residual_squared_old = Merit(x_old)
  /\ NextMerit => half_residual_squared' = Merit(unknowns)
  /\ WarnedReturn => unknowns' = x_old
  /\ (NextMerit /\ iloop > 0) =>
       ~FGt(half_residual_squared', Merit(ghost.start))

\* C28 as stated: with step length control the merit never increases from
\* one iteration of a solve to the next: a step line_search accepts makes it
\* strictly smaller, and the stagnation exit leaves the iterate, and so the
\* merit the driver computes, as it was.
C28_AcceptedStrictlyDecreases ==
  [][/\ MeritOfIterate
     /\ AcceptedReturn =>
          /\ half_residual_squared' = Merit(unknowns')
          /\ FLt(Merit(unknowns'), Merit(x_old))]_vars

\* C28: with step length control the merit never increases from one
\* iteration of a solve to the next: a step line_search accepts leaves it at
\* most what it was, and the stagnation exit leaves the iterate, and so the
\* merit the driver computes, as it was.
C28_MeritNeverIncreases ==
  [][/\ MeritOfIterate
     /\ AcceptedReturn =>
          /\ half_residual_squared' = Merit(unknowns')
          /\ FLe(Merit(unknowns'), Merit(x_old))]_vars

\* line_search is about to accept a step to another point, at which the
\* merit is what it was
C28_Witness ==
  /\ pc = "decide" /\ ~StagnationDue /\ SufficientDecrease
  /\ unknowns # x_old
  /\ half_residual_squared = half_residual_squared_old

\* line_search goes from the test of the slope on to its loop
EntersLoop == pc = "slope" /\ pc' = "trial"

\* C29: lambda_min = 1e-16 / test never divides by zero: where control
\* reaches it test is strictly positive, a direction of zeros having the
\* slope 0 and being rejected with the roundoff error before; so lambda_min
\* is finite and positive in every backtracking loop.
C29_TestPositive ==
  /\ [][EntersLoop =>
          /\ FGt(TestUpTo(newton_direction, x_old, ndof), Zero)
          /\ IsFinite(lambda_min') /\ FGt(lambda_min', Zero)]_vars
  /\ []((pc = "slope" /\ \A i \in 1..ndof : IsZero(newton_direction[i])) =>
          FEq(slope, Zero))
  /\ [](InSearchLoop => IsFinite(lambda_min) /\ FGt(lambda_min, Zero))

\* the solve has ended inside an iteration: by the roundoff error of
\* line_search or by the failure of the linear solve
Aborted == Ended /\ outcome \in {"RoundoffError", "LinearSolveError"}

\* C30: when the roundoff error of line_search or a failure of the linear
\* solve ends a solve, N_iter_taken counts the iteration given up: it is the
\* number of updates of the unknowns plus one, the throw does not write it,
\* and it keeps that value until the next invocation, which sets it to 0.
C30_AbortedIterationCounted ==
  /\ [](Aborted => N_iter_taken = ghost.updates + 1)
  /\ [][(pc # "idle" /\ Aborted') => N_iter_taken' = N_iter_taken]_vars
  /\ [][Aborted => (pc' = "loop" /\ N_iter_taken' = 0)]_vars

\* with step length control the linear solve has failed after an update or
\* more
C30_Witness ==
  /\ Aborted /\ outcome = "LinearSolveError" /\ Use_step_length_control
  /\ ghost.updates >= 1 /\ ghost.line_searches = ghost.updates

====
